---- MODULE Spec2Model ----
(***************************************************************************)
(* A model of the video upload pipeline (handlerUploadVideo and its two    *)
(* helpers getVideoAspectRatio and processVideoForFastStart) and of the    *)
(* two thumbnail pathways (handlerUploadThumbnail writing to disk, and     *)
(* handlerUploadThumbnail / handlerGetThumbnail over an in-memory map).    *)
(*                                                                         *)
(* Each handler invocation ("run") is a chain of synchronous segments      *)
(* separated by awaits.  A segment is atomic (the runtime is single        *)
(* threaded); between two segments of one run any segment of another run   *)
(* may execute.  One action of the model is one segment, together with the *)
(* completion of the I/O operation the segment was waiting for.            *)
(***************************************************************************)
EXTENDS Integers, Sequences, FiniteSets, TLC

VARIABLES
    db,        \* persistence layer: video id -> stored record
    fs,        \* scratch filesystem: path -> file content
    s3,        \* remote object store: key -> object
    run,       \* per invocation: position and local variables of the handler
    started,   \* number of requests received so far
    cw, ch,    \* classifier harness: a width/height pair ...
    clabel,    \* ... and the label computed for it
    thumb,     \* per thumbnail upload invocation: position and local variables
    assets,    \* assets directory: path -> file content
    videoThumbnails,   \* the in-memory map: video id -> thumbnail
    tstarted,  \* number of thumbnail uploads received so far
    got        \* the last handlerGetThumbnail call: its video id and response

vars == <<db, fs, s3, run, started, cw, ch, clabel,
          thumb, assets, videoThumbnails, tstarted, got>>

\* What the thumbnail handlers read and write besides db, and what the video
\* handler reads and writes besides db.
thumbVars == <<thumb, assets, videoThumbnails, tstarted, got>>
videoVars == <<fs, s3, run, started, cw, ch, clabel>>

(***************************************************************************)
(* Bounds of the model.                                                    *)
(***************************************************************************)
MaxStarts == 2     \* requests received in one behaviour
MaxDim == 24       \* largest width/height given to the classifier harness
MaxThumbStarts == 2    \* thumbnail uploads received in one behaviour
MaxRaceThumbs == 1     \* thumbnail uploads received beside the video uploads

(***************************************************************************)
(* Program constants and configuration.                                    *)
(***************************************************************************)
MAX_UPLOAD_LIMIT == 1073741824      \* 1 << 30
MAX_UPLOAD_SIZE == 10485760         \* 10 << 20

cfg == [s3Bucket |-> "tubely", s3Region |-> "eu-central-1",
        port |-> "8091", assetsRoot |-> "./assets"]

\* Handler invocations that can be in flight at the same time.
Runs == {"r1", "r2"}

(***************************************************************************)
(* JavaScript values.                                                      *)
(***************************************************************************)
undefined == [t |-> "undefined"]
Str(s) == [t |-> "string", v |-> s]

\* `${x}` in a template literal
TemplateString(x) == IF x = undefined THEN "undefined" ELSE x.v

(***************************************************************************)
(* The persistence collaborator (../db/videos).                            *)
(***************************************************************************)
Users == {"u1", "u2"}

InitialDb ==
    "v1" :> [id |-> "v1", userID |-> "u1", videoURL |-> "", thumbnailURL |-> ""]

getVideo(d, videoId) == IF videoId \in DOMAIN d THEN d[videoId] ELSE undefined

updateVideo(d, video) == [d EXCEPT ![video.id] = video]

(***************************************************************************)
(* The auth collaborator (../auth): a bearer token either carries a valid  *)
(* signature for a principal or is rejected.                               *)
(***************************************************************************)
Tokens == {[sub |-> u, valid |-> TRUE] : u \in Users} \cup {[sub |-> "u1", valid |-> FALSE]}

\* The principal the function returns ([ret |-> id]) or the error it throws.
validateJWT(token) ==
    IF token.valid THEN [ret |-> token.sub]
    ELSE [throw |-> "UserNotAuthenticatedError", message |-> "invalid token"]

(***************************************************************************)
(* Handler outcomes: a thrown error (turned into an error response by the  *)
(* response layer) or a JSON response.                                     *)
(***************************************************************************)
Pending == [pending |-> TRUE]
Throw(class, message) == [throw |-> class, message |-> message]
respondWithJSON(status, body) == [status |-> status, body |-> body]

Threw(resp, class) == "throw" \in DOMAIN resp /\ resp.throw = class
Responded(resp, status) == "status" \in DOMAIN resp /\ resp.status = status

(***************************************************************************)
(* Requests.                                                               *)
(***************************************************************************)
\* path parameter: "" is a missing id, "v9" resolves to no record
VideoIdParams == {"", "v1", "v9"}

\* The (id, token) pairs a request can carry.
RequestHeads ==
    {<<v, t>> : v \in VideoIdParams, t \in {t \in Tokens : t.valid /\ t.sub = "u1"}}
    \cup {<<"v1", t>> : t \in Tokens}

\* Media an upload can carry: what the first video stream looks like.
\* "audio" has no video stream, "junk" is not a media container at all.
MediaKinds == {"hd", "tall", "sd", "audio", "junk"}

Streams(media) ==
    CASE media = "hd"   -> << [width |-> 1920, height |-> 1080] >>
      [] media = "tall" -> << [width |-> 1080, height |-> 1920] >>
      [] media = "sd"   -> << [width |-> 640,  height |-> 480] >>
      [] OTHER          -> << >>

\* formData.get("video"): a File, or something that is not a File
NotAFile == [isFile |-> FALSE]
File(size, type, media, req) ==
    [isFile |-> TRUE, size |-> size, type |-> type,
     bytes |-> [req |-> req, media |-> media, faststart |-> FALSE]]

\* The form fields a request can carry: an admissible upload of every media
\* kind, one of them exactly at the size ceiling, and uploads over the ceiling
\* and of another declared type.
FormFields(req) ==
    {NotAFile}
    \cup {File(1024, "video/mp4", m, req) : m \in MediaKinds \ {"sd"}}
    \cup {File(MAX_UPLOAD_LIMIT, "video/mp4", "sd", req)}
    \cup {File(MAX_UPLOAD_LIMIT + 1, ty, "hd", req) : ty \in {"video/mp4", "video/webm"}}
    \cup {File(1024, "video/webm", "hd", req)}

\* The requests a client can send: the owner of v1 with every form field, and
\* every other (id, token) pair with an admissible and an oversized upload.
Requests(req) ==
    {<<h[1], h[2], b>> : h \in {<<"v1", [sub |-> "u1", valid |-> TRUE]>>},
                         b \in FormFields(req)}
    \cup {<<h[1], h[2], File(sz, "video/mp4", "hd", req)>> :
            h \in RequestHeads, sz \in {1024, MAX_UPLOAD_LIMIT + 1}}

(***************************************************************************)
(* The scratch filesystem and the object store as maps.                    *)
(***************************************************************************)
Put(m, k, val) == (k :> val) @@ m
Remove(m, k) == [x \in (DOMAIN m) \ {k} |-> m[x]]

(***************************************************************************)
(* Paths, keys and locators.                                               *)
(***************************************************************************)
\* path.join("/tmp", `${videoId}.mp4`)
TempFilePath(videoId) == "/tmp/" \o videoId \o ".mp4"

\* inFilePath + ".processed"
OutFilePath(inFilePath) == inFilePath \o ".processed"

\* randomBytes(32).toHex(): 256 random bits; two draws are taken to differ,
\* so the n-th draw of a behaviour is written as the numeral n.
RandomHex(n) == ToString(n)

\* `${ratio}/${randomBytes(32).toHex()}.mp4`
StorageKey(ratio, n) == TemplateString(ratio) \o "/" \o RandomHex(n) \o ".mp4"

\* Mutant of VideoURL: bucket and region change places.
VideoURLSwapped(c, key) ==
    "https://" \o c.s3Region \o ".s3." \o c.s3Bucket \o ".amazonaws.com/" \o key

\* `https://${cfg.s3Bucket}.s3.${cfg.s3Region}.amazonaws.com/${key}`
VideoURL(c, key) ==
    "https://" \o c.s3Bucket \o ".s3." \o c.s3Region \o ".amazonaws.com/" \o key

(***************************************************************************)
(* getVideoAspectRatio.                                                    *)
(*                                                                         *)
(* fileRatio is the double nearest to width / height and 1.70, 1.80, 0.50, *)
(* 0.60 are the doubles nearest to those decimals.  Rounding is monotone,  *)
(* and a quotient of two integers below 2^26 that differs from k/100 does  *)
(* so by more than an ulp, so for such operands the comparisons agree with *)
(* the comparisons of the exact rationals, written here cross-multiplied.  *)
(* A zero height gives Infinity or NaN, which fail both tests.             *)
(***************************************************************************)
GreaterEq(width, height, hundredths) == 100 * width >= hundredths * height
\* Mutant of LessEq: the upper boundary is exclusive.
LessEqStrict(width, height, hundredths) == 100 * width < hundredths * height

LessEq(width, height, hundredths) == 100 * width <= hundredths * height

classify(width, height) ==
    IF height = 0 THEN "other"
    ELSE IF GreaterEq(width, height, 170) /\ LessEq(width, height, 180) THEN "landscape"
    ELSE IF GreaterEq(width, height, 50) /\ LessEq(width, height, 60) THEN "portrait"
    ELSE "other"

\* Ways the ffprobe process can end for the file now at filePath.  The tool can
\* fail or be killed on any input; it exits 0 only if it could read a container.
ProbeProcs(f, filePath) ==
    {[exit |-> "nonzero", stdout |-> << >>], [exit |-> "signal", stdout |-> << >>]}
    \cup
    IF filePath \in DOMAIN f /\ f[filePath].media # "junk"
    THEN {[exit |-> "zero", stdout |-> Streams(f[filePath].media)]}
    ELSE {}

\* The value the function returns ([ret |-> v]) or the error it throws.
getVideoAspectRatio(proc) ==
    IF proc.exit = "zero"
    THEN IF Len(proc.stdout) = 0
         THEN Throw("TypeError", "undefined is not an object (evaluating 'data.streams[0].width')")
         ELSE [ret |-> Str(classify(proc.stdout[1].width, proc.stdout[1].height))]
    ELSE [ret |-> undefined]

(***************************************************************************)
(* processVideoForFastStart.                                               *)
(***************************************************************************)
\* Ways the ffmpeg process can end for the file now at inFilePath.
RemuxProcs(f, inFilePath) ==
    {[exit |-> "nonzero"], [exit |-> "signal"]}
    \cup
    IF inFilePath \in DOMAIN f /\ f[inFilePath].media # "junk"
    THEN {[exit |-> "zero"]}
    ELSE {}

FastStart(bytes) == [bytes EXCEPT !.faststart = TRUE]

\* Mutant of ProcStderr: the process is spawned without a piped stderr.
ProcStderrNotPiped == undefined

\* Mutant of Truthy: the test of proc.stderr never succeeds.
TruthyNever(x) == FALSE

\* proc.stderr is a stream object, because the process is spawned with
\* stderr: "pipe"
ProcStderr == [t |-> "object"]
Truthy(x) == x # undefined

\* The path the function returns ([ret |-> path]) or the error it throws.
processVideoForFastStart(proc, inFilePath) ==
    IF proc.exit # "zero" /\ Truthy(ProcStderr)
    THEN Throw("Error", "[object ReadableStream]")
    ELSE [ret |-> OutFilePath(inFilePath)]

(***************************************************************************)
(* handlerUploadVideo, one action per synchronous segment.                 *)
(***************************************************************************)
\* Local variables of an invocation that has not started.
IdleRun ==
    [pc |-> "idle", req |-> 0, videoId |-> "", userId |-> "", body |-> undefined,
     video |-> undefined, file |-> undefined, tempFilePath |-> "",
     probe |-> "none", ratio |-> undefined, key |-> "",
     remux |-> "none", tempProcessedFilePath |-> "",
     resp |-> Pending]

\* The invocation ends: an error propagates to the response layer, or the
\* response is returned.  What stays on record is the request it served, how
\* its two tool processes exited, and the outcome; its other locals are gone.
Done(rec, resp) ==
    [IdleRun EXCEPT !.pc = "done", !.req = rec.req, !.videoId = rec.videoId,
                    !.userId = rec.userId, !.body = rec.body, !.file = rec.file,
                    !.probe = rec.probe, !.remux = rec.remux, !.resp = resp]

\* Mutant of NotOwner: the ownership check is missing.
NotOwnerUnchecked(video, userId) == FALSE

\* video.userID !== userId
NotOwner(video, userId) == video.userID # userId

\* Mutant of Oversized: the ceiling itself is refused.
OversizedInclusive(file) == file.size >= MAX_UPLOAD_LIMIT

\* file.size > MAX_UPLOAD_LIMIT
Oversized(file) == file.size > MAX_UPLOAD_LIMIT

\* A request is served by the first invocation slot that is free.
Before(q, r) == q = "r1" /\ r = "r2"

\* Request received (with the body the client sends): id, token, record lookup
\* and ownership; then the handler awaits the form data.
Begin(r) ==
    /\ run[r].pc \in {"idle", "done"}
    /\ \A q \in Runs : Before(q, r) => run[q].pc \notin {"idle", "done"}
    /\ started < MaxStarts
    /\ \E request \in Requests(started + 1) :
         LET videoId == request[1]
             token == request[2]
             body == request[3]
             auth  == validateJWT(token)
             video == getVideo(db, videoId)
             rec   == [IdleRun EXCEPT !.req = started + 1, !.videoId = videoId,
                           !.userId = IF "ret" \in DOMAIN auth THEN auth.ret ELSE "",
                           !.body = body]
         IN  run' = [run EXCEPT ![r] =
                 IF videoId = ""
                 THEN Done(rec, Throw("BadRequestError", "invalid video id"))
                 ELSE IF "throw" \in DOMAIN auth
                 THEN Done(rec, auth)
                 ELSE IF video = undefined
                 THEN Done(rec, Throw("NotFoundError", "video not found"))
                 ELSE IF NotOwner(video, rec.userId)
                 THEN Done(rec, Throw("UserForbiddenError", "user not authorized"))
                 ELSE [rec EXCEPT !.pc = "formData", !.video = video]]
    /\ started' = started + 1
    /\ UNCHANGED <<db, fs, s3, cw, ch, clabel, thumbVars>>

\* Mutant of ReadForm: the media type is checked before the size.
ReadFormTypeFirst(r) ==
    /\ run[r].pc = "formData"
    /\ LET file == run[r].body
           rec == [run[r] EXCEPT !.file = file]
       IN  run' = [run EXCEPT ![r] =
                 IF ~file.isFile
                 THEN Done(rec, Throw("BadRequestError", "data is not a file"))
                 ELSE IF file.type # "video/mp4"
                 THEN Done(rec, Throw("BadRequestError", "wrong media type"))
                 ELSE IF Oversized(file)
                 THEN Done(rec, Throw("BadRequestError", "file exceeds upload limit (1GB)"))
                 ELSE [rec EXCEPT !.pc = "write",
                                  !.tempFilePath = TempFilePath(rec.videoId)]]
    /\ UNCHANGED <<db, fs, s3, started, cw, ch, clabel, thumbVars>>

\* Form data read from the body: field, size and media type checks; then the handler starts
\* writing the temporary file.
ReadForm(r) ==
    /\ run[r].pc = "formData"
    /\ LET file == run[r].body
           rec == [run[r] EXCEPT !.file = file]
       IN  run' = [run EXCEPT ![r] =
                 IF ~file.isFile
                 THEN Done(rec, Throw("BadRequestError", "data is not a file"))
                 ELSE IF Oversized(file)
                 THEN Done(rec, Throw("BadRequestError", "file exceeds upload limit (1GB)"))
                 ELSE IF file.type # "video/mp4"
                 THEN Done(rec, Throw("BadRequestError", "wrong media type"))
                 ELSE [rec EXCEPT !.pc = "write",
                                  !.tempFilePath = TempFilePath(rec.videoId)]]
    /\ UNCHANGED <<db, fs, s3, started, cw, ch, clabel, thumbVars>>

\* Bun.write(tempFilePath, file) completes; then ffprobe is spawned.
WriteTemp(r) ==
    /\ run[r].pc = "write"
    /\ \/ /\ fs' = Put(fs, run[r].tempFilePath, run[r].file.bytes)
          /\ run' = [run EXCEPT ![r].pc = "probe"]
       \/ /\ fs' = fs
          /\ run' = [run EXCEPT ![r] = Done(@, Throw("Error", "write failed"))]
    /\ UNCHANGED <<db, s3, started, cw, ch, clabel, thumbVars>>

\* ffprobe exits; the label is computed, the key generated and ffmpeg spawned.
Probe(r) ==
    /\ run[r].pc = "probe"
    /\ \E proc \in ProbeProcs(fs, run[r].tempFilePath) :
         LET res == getVideoAspectRatio(proc)
             rec == [run[r] EXCEPT !.probe = proc.exit]
         IN  run' = [run EXCEPT ![r] =
                 IF "throw" \in DOMAIN res
                 THEN Done(rec, res)
                 ELSE [rec EXCEPT !.pc = "remux", !.ratio = res.ret,
                                  !.key = StorageKey(res.ret, rec.req)]]
    /\ UNCHANGED <<db, fs, s3, started, cw, ch, clabel, thumbVars>>

\* ffmpeg exits; on success the processed file is at the output path and the
\* write to the object store starts.  A failed ffmpeg is taken to leave no
\* output file behind.
Remux(r) ==
    /\ run[r].pc = "remux"
    /\ \E proc \in RemuxProcs(fs, run[r].tempFilePath) :
         LET inFilePath == run[r].tempFilePath
             res == processVideoForFastStart(proc, inFilePath)
             rec == [run[r] EXCEPT !.remux = proc.exit]
         IN  /\ fs' = IF proc.exit = "zero"
                      THEN Put(fs, OutFilePath(inFilePath), FastStart(fs[inFilePath]))
                      ELSE fs
             /\ run' = [run EXCEPT ![r] =
                     IF "throw" \in DOMAIN res
                     THEN Done(rec, res)
                     ELSE [rec EXCEPT !.pc = "s3write",
                                      !.tempProcessedFilePath = res.ret]]
    /\ UNCHANGED <<db, s3, started, cw, ch, clabel, thumbVars>>

\* Mutant of AfterUpload: the rejected write is swallowed.
AfterUploadSwallowed(rec, ok) == [rec EXCEPT !.pc = "update"]

\* What the handler does when s3File.write settles: a rejected write throws.
AfterUpload(rec, ok) ==
    IF ok
    THEN [rec EXCEPT !.pc = "update"]
    ELSE Done(rec, Throw("Error", "s3 write failed"))

\* s3File.write(videoFile, { type: mediaType }) settles.  The store can reject
\* any write; it cannot accept one whose source file is missing.
S3Write(r) ==
    /\ run[r].pc = "s3write"
    /\ \E ok \in BOOLEAN :
         /\ ok => run[r].tempProcessedFilePath \in DOMAIN fs
         /\ s3' = IF ok
                  THEN Put(s3, run[r].key,
                           [body |-> fs[run[r].tempProcessedFilePath],
                            type |-> run[r].file.type])
                  ELSE s3
         /\ run' = [run EXCEPT ![r] = AfterUpload(@, ok)]
    /\ UNCHANGED <<db, fs, started, cw, ch, clabel, thumbVars>>

\* The locator is set on the handler's copy of the record and the record is
\* written back; then the removal of the temporary file starts.
UpdateVideo(r) ==
    /\ run[r].pc = "update"
    /\ LET video == [run[r].video EXCEPT !.videoURL = VideoURL(cfg, run[r].key)]
       IN  /\ db' = updateVideo(db, video)
           /\ run' = [run EXCEPT ![r].video = video, ![r].pc = "rm"]
    /\ UNCHANGED <<fs, s3, started, cw, ch, clabel, thumbVars>>

\* rm(tempFilePath, { force: true }) completes; the handler responds.
Rm(r) ==
    /\ run[r].pc = "rm"
    /\ fs' = Remove(fs, run[r].tempFilePath)
    /\ run' = [run EXCEPT ![r] = Done(@, respondWithJSON(200, @.video))]
    /\ UNCHANGED <<db, s3, started, cw, ch, clabel, thumbVars>>

(***************************************************************************)
(* The thumbnail pathways.  A thumbnail upload is a chain of synchronous   *)
(* segments like a video upload; handlerGetThumbnail has no await and is   *)
(* one segment.                                                            *)
(***************************************************************************)
\* Thumbnail upload invocations that can be in flight at the same time.
ThumbRuns == {"t1", "t2"}

\* formData.get("thumbnail") when it is a File
Image(size, type, req) ==
    [isFile |-> TRUE, size |-> size, type |-> type, bytes |-> [req |-> req]]

\* The form fields a thumbnail request can carry: an admissible image, one
\* exactly at the size ceiling, one over it, one without a media type, and
\* something that is not a File.
ThumbFormFields(req) ==
    {NotAFile,
     Image(1024, "image/png", req),
     Image(MAX_UPLOAD_SIZE, "image/jpeg", req),
     Image(MAX_UPLOAD_SIZE + 1, "image/png", req),
     Image(1024, "", req)}

\* The thumbnail requests a client can send: the owner of v1 with every form
\* field, and every other (id, token) pair with an admissible image.
ThumbRequests(req) ==
    {<<"v1", [sub |-> "u1", valid |-> TRUE], b>> : b \in ThumbFormFields(req)}
    \cup {<<h[1], h[2], Image(1024, "image/png", req)>> : h \in RequestHeads}

\* The admissible thumbnail requests of the owner of v1.
OwnerThumbRequests(req) ==
    {<<"v1", [sub |-> "u1", valid |-> TRUE], Image(1024, "image/png", req)>>}

\* The assets collaborator (./assets).
mediaTypeToExt(mediaType) ==
    CASE mediaType = "image/png"  -> ".png"
      [] mediaType = "image/jpeg" -> ".jpeg"
      [] OTHER                    -> ".bin"

getAssetDiskPath(c, filename) == c.assetsRoot \o "/" \o filename

getAssetURL(c, filename) == "http://localhost:" \o c.port \o "/assets/" \o filename

\* `http://localhost:${cfg.port}/api/thumbnails/${videoId}`
ThumbnailURL(c, videoId) == "http://localhost:" \o c.port \o "/api/thumbnails/" \o videoId

\* { data: buf, mediaType: "image/png" }
Thumbnail(buf) == [data |-> buf, mediaType |-> "image/png"]

IdleThumb ==
    [pc |-> "idle", req |-> 0, videoId |-> "", userId |-> "", body |-> undefined,
     video |-> undefined, image |-> undefined, assetDiskPath |-> "",
     filename |-> "", resp |-> Pending]

\* The handler returns or throws: its locals are gone, the request and the
\* response are kept.
DoneThumb(rec, resp) ==
    [IdleThumb EXCEPT !.pc = "done", !.req = rec.req, !.videoId = rec.videoId,
                      !.userId = rec.userId, !.body = rec.body, !.resp = resp]

\* A thumbnail request is served by the first invocation slot that is free.
ThumbBefore(q, t) == q = "t1" /\ t = "t2"

\* image.size > MAX_UPLOAD_SIZE
ThumbOversized(image) == image.size > MAX_UPLOAD_SIZE

\* Mutant of DiskNotOwner: the ownership check is missing.
DiskNotOwnerUnchecked(video, userID) == FALSE

\* video.userID !== userID (disk pathway)
DiskNotOwner(video, userID) == video.userID # userID

\* Mutant of MemNotOwner: the ownership check is missing.
MemNotOwnerUnchecked(video, userID) == FALSE

\* video.userID !== userID (in-memory pathway)
MemNotOwner(video, userID) == video.userID # userID

\* !mediaType
MediaTypeMissing(mediaType) == mediaType = ""

\* Disk pathway, request received: id, token, record lookup and ownership; then
\* the handler awaits the form data.  Of the requests given, at most max are
\* received.
DiskBeginOf(t, requests, max) ==
    /\ thumb[t].pc \in {"idle", "done"}
    /\ \A q \in ThumbRuns : ThumbBefore(q, t) => thumb[q].pc \notin {"idle", "done"}
    /\ tstarted < max
    /\ \E request \in requests :
         LET videoId == request[1]
             token == request[2]
             auth  == validateJWT(token)
             video == getVideo(db, videoId)
             rec   == [IdleThumb EXCEPT !.req = tstarted + 1, !.videoId = videoId,
                           !.userId = IF "ret" \in DOMAIN auth THEN auth.ret ELSE "",
                           !.body = request[3]]
         IN  thumb' = [thumb EXCEPT ![t] =
                 IF videoId = ""
                 THEN DoneThumb(rec, Throw("BadRequestError", "Invalid video ID"))
                 ELSE IF "throw" \in DOMAIN auth
                 THEN DoneThumb(rec, auth)
                 ELSE IF video = undefined
                 THEN DoneThumb(rec, Throw("NotFoundError", "cant find video"))
                 ELSE IF DiskNotOwner(video, rec.userId)
                 THEN DoneThumb(rec, Throw("UserForbiddenError", "user not authorized"))
                 ELSE [rec EXCEPT !.pc = "formData", !.video = video]]
    /\ tstarted' = tstarted + 1
    /\ UNCHANGED <<db, assets, videoThumbnails, got, videoVars>>

DiskBegin(t) == DiskBeginOf(t, ThumbRequests(tstarted + 1), MaxThumbStarts)

\* Disk pathway, form data read: the checks of the field, the asset path, and
\* Bun.write is started.
DiskReadForm(t) ==
    /\ thumb[t].pc = "formData"
    /\ LET image == thumb[t].body
           rec == [thumb[t] EXCEPT !.image = image]
       IN  thumb' = [thumb EXCEPT ![t] =
                 IF ~image.isFile
                 THEN DoneThumb(rec, Throw("BadRequestError", "wrong file format"))
                 ELSE IF ThumbOversized(image)
                 THEN DoneThumb(rec, Throw("BadRequestError", "file exceeds upload limit"))
                 ELSE IF MediaTypeMissing(image.type)
                 THEN DoneThumb(rec, Throw("BadRequestError", "media type missing"))
                 ELSE LET filename == rec.videoId \o mediaTypeToExt(image.type)
                      IN  [rec EXCEPT !.pc = "write", !.filename = filename,
                                      !.assetDiskPath = getAssetDiskPath(cfg, filename)]]
    /\ UNCHANGED <<db, assets, videoThumbnails, tstarted, got, videoVars>>

\* Disk pathway, Bun.write done: the asset is on disk; thumbnailURL is set in
\* the record read at the start, the record is stored and returned.
DiskWrite(t) ==
    /\ thumb[t].pc = "write"
    /\ LET video == [thumb[t].video EXCEPT
                        !.thumbnailURL = getAssetURL(cfg, thumb[t].filename)]
       IN  /\ assets' = Put(assets, thumb[t].assetDiskPath, thumb[t].image.bytes)
           /\ db' = updateVideo(db, video)
           /\ thumb' = [thumb EXCEPT ![t] = DoneThumb(thumb[t], respondWithJSON(200, video))]
    /\ UNCHANGED <<videoThumbnails, tstarted, got, videoVars>>

\* In-memory pathway, request received: id and token; then the handler awaits
\* the form data.
MemBegin(t) ==
    /\ thumb[t].pc \in {"idle", "done"}
    /\ \A q \in ThumbRuns : ThumbBefore(q, t) => thumb[q].pc \notin {"idle", "done"}
    /\ tstarted < MaxThumbStarts
    /\ \E request \in ThumbRequests(tstarted + 1) :
         LET videoId == request[1]
             token == request[2]
             auth  == validateJWT(token)
             rec   == [IdleThumb EXCEPT !.req = tstarted + 1, !.videoId = videoId,
                           !.userId = IF "ret" \in DOMAIN auth THEN auth.ret ELSE "",
                           !.body = request[3]]
         IN  thumb' = [thumb EXCEPT ![t] =
                 IF videoId = ""
                 THEN DoneThumb(rec, Throw("BadRequestError", "Invalid video ID"))
                 ELSE IF "throw" \in DOMAIN auth
                 THEN DoneThumb(rec, auth)
                 ELSE [rec EXCEPT !.pc = "memFormData"]]
    /\ tstarted' = tstarted + 1
    /\ UNCHANGED <<db, assets, videoThumbnails, got, videoVars>>

\* In-memory pathway, form data read: the checks of the field; then the
\* handler awaits image.arrayBuffer().
MemReadForm(t) ==
    /\ thumb[t].pc = "memFormData"
    /\ LET image == thumb[t].body
           rec == [thumb[t] EXCEPT !.image = image]
       IN  thumb' = [thumb EXCEPT ![t] =
                 IF ~image.isFile
                 THEN DoneThumb(rec, Throw("BadRequestError", "wrong file format"))
                 ELSE IF ThumbOversized(image)
                 THEN DoneThumb(rec, Throw("BadRequestError", "file exceeds upload limit"))
                 ELSE [rec EXCEPT !.pc = "arrayBuffer"]]
    /\ UNCHANGED <<db, assets, videoThumbnails, tstarted, got, videoVars>>

\* In-memory pathway, buffer read: record lookup and ownership, the map entry,
\* thumbnailURL set in the record just read, the record stored and returned.
MemStore(t) ==
    /\ thumb[t].pc = "arrayBuffer"
    /\ LET videoId == thumb[t].videoId
           buf == thumb[t].image.bytes
           video == getVideo(db, videoId)
       IN  IF video = undefined
           THEN /\ thumb' = [thumb EXCEPT ![t] =
                       DoneThumb(thumb[t], Throw("NotFoundError", "cant find video"))]
                /\ UNCHANGED <<db, videoThumbnails>>
           ELSE IF MemNotOwner(video, thumb[t].userId)
           THEN /\ thumb' = [thumb EXCEPT ![t] =
                       DoneThumb(thumb[t], Throw("UserForbiddenError", "user not authorized"))]
                /\ UNCHANGED <<db, videoThumbnails>>
           ELSE LET updated == [video EXCEPT !.thumbnailURL = ThumbnailURL(cfg, videoId)]
                IN  /\ videoThumbnails' = Put(videoThumbnails, videoId, Thumbnail(buf))
                    /\ db' = updateVideo(db, updated)
                    /\ thumb' = [thumb EXCEPT ![t] =
                           DoneThumb(thumb[t], respondWithJSON(200, updated))]
    /\ UNCHANGED <<assets, tstarted, got, videoVars>>

\* No handlerGetThumbnail call has been made yet.
NotGot == [videoId |-> "", resp |-> Pending]

\* new Response(thumbnail.data, {headers})
ThumbnailResponse(thumbnail) ==
    [status |-> 200, body |-> thumbnail.data, contentType |-> thumbnail.mediaType]

\* handlerGetThumbnail: id, record lookup, map lookup, response.
handlerGetThumbnail(videoId) ==
    IF videoId = ""
    THEN Throw("BadRequestError", "Invalid video ID")
    ELSE IF getVideo(db, videoId) = undefined
    THEN Throw("NotFoundError", "Couldn't find video")
    ELSE IF videoId \notin DOMAIN videoThumbnails
    THEN Throw("NotFoundError", "Thumbnail not found")
    ELSE ThumbnailResponse(videoThumbnails[videoId])

GetThumbnail ==
    /\ \E videoId \in VideoIdParams :
           got' = [videoId |-> videoId, resp |-> handlerGetThumbnail(videoId)]
    /\ UNCHANGED <<db, thumb, assets, videoThumbnails, tstarted, videoVars>>

(***************************************************************************)
(* The specification of the pipeline.                                      *)
(***************************************************************************)
Init ==
    /\ db = InitialDb
    /\ fs = << >>
    /\ s3 = << >>
    /\ run = [r \in Runs |-> IdleRun]
    /\ started = 0
    /\ cw = 0
    /\ ch = 0
    /\ clabel = "none"
    /\ thumb = [t \in ThumbRuns |-> IdleThumb]
    /\ assets = << >>
    /\ videoThumbnails = << >>
    /\ tstarted = 0
    /\ got = NotGot

Next ==
    \E r \in Runs :
        \/ Begin(r)
        \/ ReadForm(r)
        \/ WriteTemp(r)
        \/ Probe(r)
        \/ Remux(r)
        \/ S3Write(r)
        \/ UpdateVideo(r)
        \/ Rm(r)

Spec == Init /\ [][Next]_vars

(***************************************************************************)
(* The classifier on its own: every width/height pair up to MaxDim is      *)
(* given to classify.                                                      *)
(***************************************************************************)
InitClassify ==
    /\ db = InitialDb
    /\ fs = << >>
    /\ s3 = << >>
    /\ run = [r \in Runs |-> IdleRun]
    /\ started = 0
    /\ cw \in 1..MaxDim
    /\ ch \in 1..MaxDim
    /\ clabel = "none"
    /\ thumb = [t \in ThumbRuns |-> IdleThumb]
    /\ assets = << >>
    /\ videoThumbnails = << >>
    /\ tstarted = 0
    /\ got = NotGot

Classify ==
    /\ clabel = "none"
    /\ clabel' = classify(cw, ch)
    /\ UNCHANGED <<db, fs, s3, run, started, cw, ch, thumbVars>>

SpecClassify == InitClassify /\ [][Classify]_vars

(***************************************************************************)
(* The disk thumbnail pathway on its own.                                  *)
(***************************************************************************)
NextDisk ==
    \E t \in ThumbRuns :
        \/ DiskBegin(t)
        \/ DiskReadForm(t)
        \/ DiskWrite(t)

SpecDisk == Init /\ [][NextDisk]_vars

(***************************************************************************)
(* The in-memory thumbnail pathway on its own.                             *)
(***************************************************************************)
NextMem ==
    \/ \E t \in ThumbRuns :
          \/ MemBegin(t)
          \/ MemReadForm(t)
          \/ MemStore(t)
    \/ GetThumbnail

SpecMem == Init /\ [][NextMem]_vars

(***************************************************************************)
(* Video uploads together with a thumbnail upload of the disk pathway by   *)
(* the owner of the record.                                                *)
(***************************************************************************)
RaceDiskBegin(t) == DiskBeginOf(t, OwnerThumbRequests(tstarted + 1), MaxRaceThumbs)

NextRace ==
    \/ Next
    \/ \E t \in ThumbRuns :
          \/ RaceDiskBegin(t)
          \/ DiskReadForm(t)
          \/ DiskWrite(t)

SpecRace == Init /\ [][NextRace]_vars

(***************************************************************************)
(* Properties.                                                             *)
(***************************************************************************)
\* Positions of a run that has written its staging file.
Staged == {"probe", "remux", "s3write", "update", "rm"}

Returns(r) == run[r].pc # "done" /\ run'[r].pc = "done"

TempFilesGone(r) ==
    /\ run[r].tempFilePath \notin DOMAIN fs'
    /\ OutFilePath(run[r].tempFilePath) \notin DOMAIN fs'

\* C1: whenever a run that created a staging file returns, with a response or
\* with an error, neither its staging file nor its processed file exists.
C1_NoTempFilesOnReturn ==
    [][\A r \in Runs : (run[r].pc \in Staged /\ Returns(r)) => TempFilesGone(r)]_vars

\* C2: when a step after the creation of the staging file fails, the temp files
\* of the run are removed before the error leaves the handler.
C2_CleanupBeforeErrorPropagates ==
    [][\A r \in Runs :
          (run[r].pc \in Staged /\ Returns(r) /\ "throw" \in DOMAIN run'[r].resp)
              => TempFilesGone(r)]_vars

\* C3: two runs never have the same staging file path, nor the same processed
\* file path, also when both are in flight for the same record.
C3_UniqueTempPaths ==
    \A q, r \in Runs :
        (q # r /\ run[q].tempFilePath # "" /\ run[r].tempFilePath # "")
            => /\ run[q].tempFilePath # run[r].tempFilePath
               /\ OutFilePath(run[q].tempFilePath) # OutFilePath(run[r].tempFilePath)

\* The store holds an object under the key of this run: the run's write to the
\* store has completed (no two runs have the same key).
Uploaded(r) == run[r].key \in DOMAIN s3

\* C4: the stored locator of a record changes only in the update step of a run
\* for that record whose object is already in the store; a run whose write to
\* the store fails ends with an error and without a persistence write.
C4_LocatorOnlyAfterUpload ==
    [][/\ \A v \in DOMAIN db :
              db'[v].videoURL # db[v].videoURL
                  => \E r \in Runs : /\ run[r].pc = "update"
                                     /\ run'[r].pc = "rm"
                                     /\ run[r].videoId = v
                                     /\ Uploaded(r)
       /\ \A r \in Runs :
              (run[r].pc = "s3write" /\ run'[r].pc # "s3write" /\ run[r].key \notin DOMAIN s3')
                  => /\ run'[r].pc = "done"
                     /\ "throw" \in DOMAIN run'[r].resp
                     /\ db' = db]_vars

C4_Witness ==
    \E r \in Runs : /\ run[r].pc = "done"
                    /\ run[r].remux = "zero"
                    /\ Threw(run[r].resp, "Error")
                    /\ s3 = << >>
                    /\ db = InitialDb

\* C5: when ffprobe exits non-zero or is killed, the run ends there with an
\* error: nothing is uploaded, the temp files are removed and the stored
\* record is unchanged.
C5_ProbeFailureFailsRun ==
    [][\A r \in Runs :
          (run[r].pc = "probe" /\ run'[r].probe \in {"nonzero", "signal"})
              => /\ run'[r].pc = "done"
                 /\ "throw" \in DOMAIN run'[r].resp
                 /\ TempFilesGone(r)
                 /\ s3' = s3
                 /\ db' = db]_vars

ByNonOwner(rec) ==
    /\ rec.videoId \in DOMAIN db
    /\ rec.userId # ""
    /\ db[rec.videoId].userID # rec.userId

\* C7: a request by an authenticated principal that does not own the record is
\* answered with Forbidden in the step that receives it, and that step (the
\* whole run) changes neither the stored record nor the object store nor the
\* scratch directory.
C7_NonOwnerForbidden ==
    [][\A r \in Runs :
          (run'[r].req # run[r].req /\ ByNonOwner(run'[r]))
              => /\ run'[r].pc = "done"
                 /\ Threw(run'[r].resp, "UserForbiddenError")
                 /\ db' = db
                 /\ s3' = s3
                 /\ fs' = fs]_vars

C7_Witness ==
    \E r \in Runs : /\ run[r].pc = "done"
                    /\ ByNonOwner(run[r])
                    /\ Threw(run[r].resp, "UserForbiddenError")

\* C8: for positive integers, classify gives landscape exactly when
\* 17/10 <= width/height <= 9/5, portrait exactly when
\* 1/2 <= width/height <= 3/5, and other in every remaining case.
C8_ClassifierBands ==
    clabel # "none" =>
        LET landscape == 17 * ch <= 10 * cw /\ 5 * cw <= 9 * ch
            portrait  == ch <= 2 * cw /\ 5 * cw <= 3 * ch
        IN  /\ clabel = "landscape" <=> landscape
            /\ clabel = "portrait" <=> portrait
            /\ clabel = "other" <=> (~landscape /\ ~portrait)

\* a pair exactly on the upper landscape boundary has been classified
C8_Witness == clabel = "landscape" /\ 5 * cw = 9 * ch

C10_KeysCarryLabel ==
    \A k \in DOMAIN s3 :
        \E label \in {"landscape", "portrait", "other"}, n \in 1..MaxStarts :
            k = label \o "/" \o RandomHex(n) \o ".mp4"

\* The file at path p holds the bytes of the request that run r serves.
OwnFile(r, p) == p \in DOMAIN fs /\ fs[p].req = run[r].req

\* C11: the probe and the remux of a run read the staging file of that run's
\* own request, its upload reads the processed file of its own request, and
\* the object it stores holds bytes of its own request.
C11_OnlyOwnBytes ==
    [][\A r \in Runs :
          run'[r].pc # run[r].pc =>
              /\ run[r].pc \in {"probe", "remux"} => OwnFile(r, run[r].tempFilePath)
              /\ run[r].pc = "s3write" => OwnFile(r, run[r].tempProcessedFilePath)
              /\ (run[r].pc = "s3write" /\ run'[r].pc = "update")
                    => s3'[run[r].key].body.req = run[r].req]_vars

\* The request of a run names a record, carries a valid token and a file.
Checkable(rec) ==
    /\ rec.videoId # ""
    /\ rec.userId # ""
    /\ rec.body.isFile

\* The checks a request can violate, each with the error it is answered with.
SizeCheck(rec) ==
    <<rec.body.size > MAX_UPLOAD_LIMIT, "BadRequestError", "file exceeds upload limit (1GB)">>
TypeCheck(rec) ==
    <<rec.body.type # "video/mp4", "BadRequestError", "wrong media type">>
RecordCheck(rec) ==
    <<rec.videoId \notin DOMAIN db, "NotFoundError", "video not found">>
OwnerCheck(rec) ==
    <<rec.videoId \in DOMAIN db /\ db[rec.videoId].userID # rec.userId,
      "UserForbiddenError", "user not authorized">>

\* A finished run whose request violates a check of the sequence was answered
\* with the error of the first check it violates.
RejectedByFirst(rec, checks) ==
    LET violated == {i \in DOMAIN checks : checks[i][1]}
    IN  violated # {} =>
            LET first == CHOOSE i \in violated : \A j \in violated : i <= j
            IN  /\ Threw(rec.resp, checks[first][2])
                /\ rec.resp.message = checks[first][3]

\* C12 as claimed: the checks are applied in the order size ceiling, media
\* type, record resolution, ownership.
C12_SizeTypeThenOwnership ==
    \A r \in Runs :
        (run[r].pc = "done" /\ Checkable(run[r]))
            => RejectedByFirst(run[r], <<SizeCheck(run[r]), TypeCheck(run[r]),
                                        RecordCheck(run[r]), OwnerCheck(run[r])>>)

\* C12 as amended: the checks are applied in the order record resolution,
\* ownership, size ceiling, media type.
C12_OwnershipThenSizeType ==
    \A r \in Runs :
        (run[r].pc = "done" /\ Checkable(run[r]))
            => RejectedByFirst(run[r], <<RecordCheck(run[r]), OwnerCheck(run[r]),
                                        SizeCheck(run[r]), TypeCheck(run[r])>>)

\* an oversized upload by a principal that does not own the record was refused
C12_Witness ==
    \E r \in Runs : /\ run[r].pc = "done"
                    /\ Checkable(run[r])
                    /\ run[r].body.size > MAX_UPLOAD_LIMIT
                    /\ ByNonOwner(run[r])
                    /\ Threw(run[r].resp, "UserForbiddenError")

\* C13: when ffmpeg exits non-zero the run ends in that step with an error: no
\* object is or has been stored under its key, the stored records are
\* unchanged and there is no success response.
C13_RemuxFailureFailsRun ==
    [][\A r \in Runs :
          (run[r].pc = "remux" /\ run'[r].remux = "nonzero")
              => /\ run'[r].pc = "done"
                 /\ "throw" \in DOMAIN run'[r].resp
                 /\ ~Responded(run'[r].resp, 200)
                 /\ run[r].key \notin DOMAIN s3'
                 /\ s3' = s3
                 /\ db' = db]_vars

C13_Witness ==
    \E r \in Runs : /\ run[r].pc = "done"
                    /\ run[r].remux = "nonzero"
                    /\ Threw(run[r].resp, "Error")
                    /\ db = InitialDb

\* The steps of one run, one after the other, each with what it has done when
\* it ends; the key is generated in the step from keyFrom to keyTo.
Pipeline(r, keyFrom, keyTo) ==
    LET from == run[r].pc
        to   == run'[r].pc
        path == run[r].tempFilePath
    IN  /\ (from # to /\ from \notin {"idle", "done"} /\ to # "done")
              => <<from, to>> \in {<<"formData", "write">>, <<"write", "probe">>,
                                   <<"probe", "remux">>, <<"remux", "s3write">>,
                                   <<"s3write", "update">>, <<"update", "rm">>}
        /\ (from = "write" /\ to = "probe") => run'[r].tempFilePath \in DOMAIN fs'
        /\ (from = "probe" /\ to = "remux") => run'[r].probe # "none"
        /\ (from = "remux" /\ to = "s3write")
              => run'[r].remux = "zero" /\ OutFilePath(path) \in DOMAIN fs'
        /\ (from = "s3write" /\ to = "update")
              => run[r].key \notin DOMAIN s3 /\ run[r].key \in DOMAIN s3'
        /\ (from = "update" /\ to = "rm")
              => db'[run[r].videoId].videoURL = VideoURL(cfg, run[r].key)
        /\ (from = "rm" /\ to = "done")
              => path \notin DOMAIN fs' /\ Responded(run'[r].resp, 200)
        /\ (from \notin {"idle", "done"} /\ to # "done" /\ run'[r].key # run[r].key)
              => from = keyFrom /\ to = keyTo
        /\ (from = keyFrom /\ to = keyTo) => run'[r].key # "" /\ run[r].key = ""

\* C14 as claimed: the steps follow each other in the order stage, probe,
\* remux, key, upload, update, removal; the key is generated after the remux.
C14_KeyAfterRemux ==
    [][\A r \in Runs : Pipeline(r, "remux", "s3write")]_vars

\* C14 as amended: the steps follow each other in the order stage, probe, key,
\* remux, upload, update, removal; the key is generated before the remux.
C14_KeyBeforeRemux ==
    [][\A r \in Runs : Pipeline(r, "probe", "remux")]_vars

\* a run holds its key while its remux has not ended
C14_Witness ==
    \E r \in Runs : /\ run[r].pc = "remux"
                    /\ run[r].key # ""
                    /\ run[r].remux = "none"

\* C16: when a run spawns ffmpeg, no file exists at its output path.
C16_FreshOutputPath ==
    [][\A r \in Runs :
          (run[r].pc = "probe" /\ run'[r].pc = "remux")
              => OutFilePath(run[r].tempFilePath) \notin DOMAIN fs']_vars

\* C15: the record a video upload stores differs from the record stored until
\* then in videoURL only.
C15_OnlyLocatorWritten ==
    [][\A r \in Runs :
          (run[r].pc = "update" /\ run'[r].pc = "rm")
              => LET id == run[r].videoId
                 IN  db'[id] = [db[id] EXCEPT !.videoURL = db'[id].videoURL]]_vars

\* The thumbnail request of an invocation passes every check of the in-memory
\* pathway.
MemChecksPassed(rec) ==
    /\ rec.videoId \in DOMAIN db
    /\ rec.userId = db[rec.videoId].userID
    /\ rec.body.isFile
    /\ rec.body.size <= MAX_UPLOAD_SIZE

\* thumbnailURL of the record is the URL of the in-memory pathway.
ThumbnailURLSet(id) == id \in DOMAIN db /\ db[id].thumbnailURL = ThumbnailURL(cfg, id)

\* C17: the map changes only in the last step of an upload by the owner of the
\* record that passed every check, and only at that record's id; every record
\* whose thumbnailURL was set has an entry in the map; and handlerGetThumbnail
\* for such a record does not fail with "Thumbnail not found".
C17_MapEntriesMatchRecords ==
    /\ [](\A id \in DOMAIN db : db[id].thumbnailURL # "" => id \in DOMAIN videoThumbnails)
    /\ [][/\ videoThumbnails' # videoThumbnails
             => \E t \in ThumbRuns :
                   /\ thumb[t].pc = "arrayBuffer"
                   /\ MemChecksPassed(thumb[t])
                   /\ Responded(thumb'[t].resp, 200)
                   /\ ThumbnailURLSet(thumb[t].videoId)'
                   /\ videoThumbnails'[thumb[t].videoId].data.req = thumb[t].req
                   /\ \A id \in DOMAIN videoThumbnails' :
                         id # thumb[t].videoId
                             => id \in DOMAIN videoThumbnails
                                /\ videoThumbnails'[id] = videoThumbnails[id]
          /\ \A id \in DOMAIN videoThumbnails : id \in DOMAIN videoThumbnails'
          /\ (got' # got /\ ThumbnailURLSet(got'.videoId))
             => /\ ~Threw(got'.resp, "NotFoundError")
                /\ got'.resp.status = 200]_vars

\* the owner's thumbnail is in the map and has been fetched, and an upload by
\* another principal was refused
C17_Witness ==
    /\ ThumbnailURLSet("v1")
    /\ "v1" \in DOMAIN videoThumbnails
    /\ got.videoId = "v1"
    /\ got.resp = ThumbnailResponse(videoThumbnails["v1"])
    /\ \E t \in ThumbRuns : /\ thumb[t].pc = "done"
                            /\ thumb[t].userId = "u2"
                            /\ Threw(thumb[t].resp, "UserForbiddenError")

\* The thumbnail request of an invocation fails a check of the disk pathway.
DiskRejected(rec) ==
    \/ rec.videoId = ""
    \/ rec.videoId \notin DOMAIN db
    \/ rec.userId # db[rec.videoId].userID
    \/ ~rec.body.isFile
    \/ rec.body.size > MAX_UPLOAD_SIZE
    \/ rec.body.type = ""

\* C18: no step of a call whose request fails a check writes an asset or a
\* record, and the call ends with an error; an asset or a record is written
\* only by the last step of a call whose request passes every check; and the
\* request body is read only by a call of the owner of the record.
C18_DiskWritesAfterChecks ==
    [][   /\ \A t \in ThumbRuns :
             (thumb'[t] # thumb[t] /\ DiskRejected(thumb'[t]))
                 => /\ assets' = assets
                    /\ db' = db
                    /\ thumb'[t].pc = "done" => "throw" \in DOMAIN thumb'[t].resp
                    /\ thumb'[t].pc \in {"done", "formData"}
          /\ (assets' # assets \/ db' # db)
             => \E t \in ThumbRuns :
                   /\ thumb[t].pc = "write"
                   /\ ~DiskRejected(thumb[t])
                   /\ thumb[t].assetDiskPath \in DOMAIN assets'
                   /\ db'[thumb[t].videoId].thumbnailURL = getAssetURL(cfg, thumb[t].filename)
                   /\ Responded(thumb'[t].resp, 200)
          /\ \A t \in ThumbRuns :
                (thumb'[t].image # thumb[t].image /\ thumb'[t].image # undefined)
                    => /\ thumb[t].pc = "formData"
                       /\ thumb[t].video # undefined
                       /\ thumb[t].video.userID = thumb[t].userId]_vars

\* one call wrote its asset and set thumbnailURL, another was refused for its
\* missing media type and wrote nothing
C18_Witness ==
    /\ \E t \in ThumbRuns : /\ thumb[t].pc = "done"
                            /\ Responded(thumb[t].resp, 200)
                            /\ DOMAIN assets # {}
                            /\ db["v1"].thumbnailURL # ""
    /\ \E t \in ThumbRuns : /\ thumb[t].pc = "done"
                            /\ thumb[t].body.isFile
                            /\ thumb[t].body.type = ""
                            /\ thumb[t].resp = Throw("BadRequestError", "media type missing")

====
